---- MODULE Spec2Model ----
(***************************************************************************)
(* Model of the token-bounded Markdown splitter of ai-utils                *)
(* (src/text_splitter/text_service.rs): TextSplitter::split and everything *)
(* it calls.                                                               *)
(*                                                                         *)
(* A text is a sequence of one-character strings; byte offsets of the Rust *)
(* code are 0-based and half-open, so the Rust slice text[a..b] is         *)
(* SubSeq(text, a + 1, b).  All input characters are ASCII, one byte each. *)
(***************************************************************************)
EXTENDS Integers, Sequences, FiniteSets, TLC

(***************************************************************************)
(* Bounds of the model.                                                    *)
(***************************************************************************)
\* documents are concatenations of at most MaxBlocks blocks of Blocks
MaxBlocks == 3
\* the limits tried, besides 0 and 1: the least limit under which any content
\* fits a chunk plus SmallBudget tokens, plus LargeBudget tokens, and plus
\* WideBudget tokens
SmallBudget == 7
LargeBudget == 13
WideBudget == 24
\* letters per token inside a run of letters, in the tokenizer model
TokWidth == 4
\* iterations of split's loop that may fail to advance before the model stops
MaxStall == 2

----------------------------------------------------------------------------
(***************************************************************************)
(* Characters.                                                             *)
(***************************************************************************)
NL == "\n"

Letters ==
  {"a", "b", "c", "d", "e", "g", "i", "l", "m", "n", "r", "s", "t", "u"}

IsLetter(c) == c \in Letters

\* \s of the regex crate, over the characters of the model
IsSpace(c) == c \in {" ", NL}

Min(a, b) == IF a < b THEN a ELSE b

\* the least and the greatest member of a non-empty set of positions
First(ps) == CHOOSE p \in ps : \A q \in ps : p <= q

Last(ps) == CHOOSE p \in ps : \A q \in ps : p >= q

\* the Rust slice s[a..b]
Slice(s, a, b) == SubSeq(s, a + 1, b)

\* the bytes that continue a character of more than one byte: text is UTF-8,
\* and the second byte of the two of e-acute stands for all of them
ContinuationBytes == {"A9"}

\* str::is_char_boundary: a slice of a str at any other offset panics
is_char_boundary(s, i) ==
  i = 0 \/ i = Len(s) \/ (i < Len(s) /\ s[i + 1] \notin ContinuationBytes)

----------------------------------------------------------------------------
(***************************************************************************)
(* The tokenizer.  tiktoken's cl100k_base is a library, not code of the    *)
(* repository; the model keeps what the splitter relies on: the text is    *)
(* cut into pieces (a run of letters, or one other character), a run of    *)
(* letters costs one token per TokWidth letters, any other character one   *)
(* token.  "<|im_start|>" and "<|im_end|>" are no special tokens of        *)
(* cl100k_base, so encode_with_special_tokens encodes them as plain text.  *)
(***************************************************************************)
\* the number of letters that end at position i without a break
RECURSIVE LettersBefore(_, _)
LettersBefore(s, i) ==
  IF i = 0 \/ ~IsLetter(s[i]) THEN 0 ELSE 1 + LettersBefore(s, i - 1)

\* a token starts at position i
StartsToken(s, i) ==
  ~IsLetter(s[i]) \/ LettersBefore(s, i - 1) % TokWidth = 0

\* tokenizer.encode_with_special_tokens(s).len()
EncodeLen(s) == Cardinality({i \in 1..Len(s) : StartsToken(s, i)})

\* "<|im_start|>"
ImStart == <<"<", "|", "i", "m", "_", "s", "t", "a", "r", "t", "|", ">">>

\* "<|im_end|>"
ImEnd == <<"<", "|", "i", "m", "_", "e", "n", "d", "|", ">">>

\* the text as it is, without the envelope
format_bare(t) == t

\* format!("<|im_start|>user\n{}<|im_end|>\n<|im_start|>assistant<|im_end|>", text)
format_for_tokenization(t) ==
  ImStart \o <<"u", "s", "e", "r", NL>> \o t \o ImEnd \o <<NL>> \o ImStart
    \o <<"a", "s", "s", "i", "s", "t", "a", "n", "t">> \o ImEnd

count_tokens(t) == EncodeLen(format_for_tokenization(t))

\* self.count_tokens("") and self.count_tokens(&self.format_for_tokenization(""))
\* (line 106)
EmptyTokens == count_tokens(<<>>)

WrappedEmptyTokens == count_tokens(format_for_tokenization(<<>>))

\* get_chunk's overhead (line 106)
Overhead == WrappedEmptyTokens - EmptyTokens

----------------------------------------------------------------------------
(***************************************************************************)
(* The boundary search of get_chunk.                                       *)
(***************************************************************************)
\* the estimate without the start it is counted from
estimate_from_zero(t, start, lim) ==
  Min(((Len(t) - start) * lim) \div count_tokens(Slice(t, start, Len(t))),
      Len(t))

\* the proportional first guess of get_chunk (lines 108-109)
EstimateEnd(t, start, lim) ==
  Min(start + (((Len(t) - start) * lim) \div count_tokens(Slice(t, start, Len(t)))),
      Len(t))

\* the loop of get_chunk without its test of the budget: it never runs
shrink_never(tok, start, e, lim) == FALSE

\* the condition of get_chunk's shrink loop (line 114)
ShrinkCond(tok, start, e, lim) == tok + Overhead > lim /\ e > start

find_new_chunk_end(start, e) ==
  LET new_end == e - ((e - start) \div 10)
  IN  IF new_end <= start THEN start + 1 ELSE new_end

\* (limit as f64 * 0.8) as usize
min_chunk_tokens(lim) == (lim * 4) \div 5

\* text[end..].find('\n').map(|pos| end + pos + 1), 0 when None
next_newline(t, e) ==
  LET at == {p \in (e + 1)..Len(t) : t[p] = NL}
  IN  IF at = {} THEN 0 ELSE First(at)

\* text[..end].rfind('\n').map(|pos| pos + 1), 0 when None
prev_newline(t, e) ==
  LET at == {p \in 1..e : t[p] = NL}
  IN  IF at = {} THEN 0 ELSE Last(at)

\* the guards of a snap candidate without the limit
fits_without_limit(t, start, cand, lim) ==
  count_tokens(Slice(t, start, cand)) >= min_chunk_tokens(lim)

\* the guards of a snap candidate without the floor of 0.8 * limit
fits_without_floor(t, start, cand, lim) ==
  count_tokens(Slice(t, start, cand)) <= lim

\* the two guards of a snap candidate (lines 147 and 158)
SnapFits(t, start, cand, lim) ==
  LET tok == count_tokens(Slice(t, start, cand))
  IN  tok <= lim /\ tok >= min_chunk_tokens(lim)

\* adjust_chunk_end that tries the line break before the end first
adjust_backward_first(t, start, e, lim) ==
  LET next == next_newline(t, e)
      prev == prev_newline(t, e)
  IN  IF prev # 0 /\ prev > start /\ SnapFits(t, start, prev, lim) THEN prev
      ELSE IF next # 0 /\ SnapFits(t, start, next, lim) THEN next
      ELSE e

\* TextSplitter::adjust_chunk_end (lines 130-167)
adjust_chunk_end(t, start, e, lim) ==
  LET next == next_newline(t, e)
      prev == prev_newline(t, e)
  IN  IF next # 0 /\ SnapFits(t, start, next, lim) THEN next
      ELSE IF prev # 0 /\ prev > start /\ SnapFits(t, start, prev, lim) THEN prev
      ELSE e

\* get_chunk without the slice it takes again after the snap: the text of the
\* chunk is the one the loop ended with
get_chunk_stale(t, start, e, lim) ==
  [chunk_text |-> Slice(t, start, e),
   chunk_end |-> adjust_chunk_end(t, start, e, lim)]

\* what get_chunk returns once its loop has ended at e (lines 124-127)
get_chunk_result(t, start, e, lim) ==
  LET snapped == adjust_chunk_end(t, start, e, lim)
  IN  [chunk_text |-> Slice(t, start, snapped), chunk_end |-> snapped]

\* the condition of the loop with <= for <
loop_cond_inclusive(pos, t) == pos <= Len(t)

\* the condition of split's loop (line 75)
loop_cond(pos, t) == pos < Len(t)

----------------------------------------------------------------------------
(***************************************************************************)
(* Headers: HashMap<String, Vec<String>>.  The key "h<l>" is the level l;  *)
(* a map is a function from the set of its keys to the sequences of        *)
(* their values.                                                           *)
(***************************************************************************)
Levels == 1..6

\* Headers::new
NoHeaders == [l \in {} |-> <<>>]

\* Headers::insert
insert(h, key, value) ==
  IF key \in DOMAIN h
    THEN [h EXCEPT ![key] = Append(@, value)]
    ELSE [l \in DOMAIN h \cup {key} |-> IF l = key THEN <<value>> ELSE h[l]]

\* clear_lower_headers that retains every level
clear_nothing(h, level) == h

\* clear_lower_headers that empties the lists of the deeper levels and leaves
\* their keys in the map
clear_lists(h, level) ==
  [l \in DOMAIN h |-> IF l \in (level + 1)..6 THEN <<>> ELSE h[l]]

\* Headers::clear_lower_headers
clear_lower_headers(h, level) ==
  [l \in DOMAIN h \ ((level + 1)..6) |-> h[l]]

(***************************************************************************)
(* extract_headers: the matches of header_regex in a chunk, left to right. *)
(* A match starts at the start of a line with one to six "#", then takes   *)
(* all the white space that follows (greedy, line breaks included), then   *)
(* everything up to the end of the line it has reached.                    *)
(***************************************************************************)
\* number of consecutive characters from position i on that satisfy the test
RECURSIVE RunLen(_, _, _)
RunLen(s, i, kind) ==
  IF i > Len(s) THEN 0
  ELSE IF    (kind = "hash" /\ s[i] = "#")
          \/ (kind = "space" /\ IsSpace(s[i]))
          \/ (kind = "line" /\ s[i] # NL)
          \/ (kind = "alt" /\ s[i] # "]")
          \/ (kind = "target" /\ s[i] # ")")
       THEN 1 + RunLen(s, i + 1, kind)
       ELSE 0

\* str::trim
RECURSIVE trim(_)
trim(s) ==
  IF s = <<>> THEN s
  ELSE IF IsSpace(s[1]) THEN trim(Tail(s))
  ELSE IF IsSpace(s[Len(s)]) THEN trim(SubSeq(s, 1, Len(s) - 1))
  ELSE s

\* the match of the header regex that starts at position i (1-based), if any
HeaderAt(s, i) ==
  LET hashes == RunLen(s, i, "hash")
      spaces == RunLen(s, i + hashes, "space")
      from   == i + hashes + spaces
      rest   == RunLen(s, from, "line")
  IN  IF (i = 1 \/ s[i - 1] = NL) /\ hashes \in Levels /\ spaces >= 1
        THEN [ok |-> TRUE, level |-> hashes,
              content |-> trim(SubSeq(s, from, from + rest - 1)),
              at |-> i - 1, next |-> from + rest]
        ELSE [ok |-> FALSE]

\* captures_iter: the successive non-overlapping matches from position i on,
\* each the leftmost match that starts at or after the end of the one before
RECURSIVE HeaderMatches(_, _)
HeaderMatches(s, i) ==
  LET starts == {p \in i..Len(s) : HeaderAt(s, p).ok}
  IN  IF starts = {} THEN <<>>
      ELSE LET m == HeaderAt(s, First(starts))
           IN  <<m>> \o HeaderMatches(s, m.next)

\* the loop of extract_headers over the matches, inserting field f of each
RECURSIVE InsertAll(_, _, _)
InsertAll(h, ms, f) ==
  IF ms = <<>> THEN h
  ELSE InsertAll(insert(h, ms[1].level, ms[1][f]), Tail(ms), f)

extract_headers(s) == InsertAll(NoHeaders, HeaderMatches(s, 1), "content")

\* the values of one level appended to current, one insert each (lines 196-198)
RECURSIVE InsertValues(_, _, _)
InsertValues(current, key, values) ==
  IF values = <<>> THEN current
  ELSE InsertValues(insert(current, key, values[1]), key, Tail(values))

\* the loop of update_current_headers from level on (lines 193-201)
RECURSIVE UpdateFrom(_, _, _)
UpdateFrom(current, extracted, level) ==
  IF level > 6 THEN current
  ELSE IF level \in DOMAIN extracted
    THEN UpdateFrom(
           clear_lower_headers(InsertValues(current, level, extracted[level]), level),
           extracted, level + 1)
    ELSE UpdateFrom(current, extracted, level + 1)

\* update_current_headers that starts from no headers, not from the running
\* context
update_from_empty(current, extracted) == UpdateFrom(NoHeaders, extracted, 1)

\* TextSplitter::update_current_headers
update_current_headers(current, extracted) == UpdateFrom(current, extracted, 1)

----------------------------------------------------------------------------
(***************************************************************************)
(* extract_urls_and_images: two replace_all passes, the image pass first.  *)
(* A marker is an optional "!", a bracketed label without "]" and a        *)
(* parenthesised target without ")"; the label of a link is not empty, the *)
(* label of an image may be, the target never is.                          *)
(***************************************************************************)
\* the counters of lines 207 and 208, which the closures never advance
url_index == 0

image_index == 0

\* format!("{}", n) of a usize
RECURSIVE ToDigits(_)
ToDigits(n) ==
  LET digit == <<"0", "1", "2", "3", "4", "5", "6", "7", "8", "9">>
  IN  IF n < 10 THEN <<digit[n + 1]>>
      ELSE ToDigits(n \div 10) \o <<digit[(n % 10) + 1]>>

\* the match of image_regex (bang) or url_regex (no bang) starting at i, if any
MarkerAt(s, i, bang) ==
  LET open   == IF bang THEN i + 1 ELSE i
      label  == RunLen(s, open + 1, "alt")
      close  == open + 1 + label
      target == RunLen(s, close + 2, "target")
      last   == close + 2 + target
  IN  IF /\ (bang => s[i] = "!")
         /\ open <= Len(s)
         /\ s[open] = "["
         /\ last <= Len(s)
         /\ (bang \/ label >= 1)
         /\ s[close] = "]"
         /\ s[close + 1] = "("
         /\ target >= 1
         /\ s[last] = ")"
        THEN [ok |-> TRUE,
              label |-> SubSeq(s, open + 1, close - 1),
              target |-> SubSeq(s, close + 2, last - 1),
              next |-> last + 1]
        ELSE [ok |-> FALSE]

\* format!("![{}]({{$img{}}})", alt_text, image_index) and its url twin
Placeholder(bang, label, index) ==
  (IF bang THEN <<"!">> ELSE <<>>) \o <<"[">> \o label \o <<"]", "(", "{", "$">>
    \o (IF bang THEN <<"i", "m", "g">> ELSE <<"u", "r", "l">>)
    \o ToDigits(index) \o <<"}", ")">>

\* Regex::replace_all from position i on: the rewritten text and the targets
\* pushed by the closure, in match order; what lies between two matches is
\* copied
RECURSIVE ReplaceAll(_, _, _, _)
ReplaceAll(s, i, bang, index) ==
  LET starts == {p \in i..Len(s) : MarkerAt(s, p, bang).ok}
  IN  IF starts = {} THEN [text |-> SubSeq(s, i, Len(s)), found |-> <<>>]
      ELSE LET at == First(starts)
               m  == MarkerAt(s, at, bang)
               r  == ReplaceAll(s, m.next, bang, index)
           IN  [text |-> SubSeq(s, i, at - 1)
                           \o Placeholder(bang, m.label, index) \o r.text,
                found |-> <<m.target>> \o r.found]

extract_urls_and_images(s) ==
  LET img == ReplaceAll(s, 1, TRUE, image_index)
      url == ReplaceAll(img.text, 1, FALSE, url_index)
  IN  [content |-> url.text, urls |-> url.found, images |-> img.found]

----------------------------------------------------------------------------
(***************************************************************************)
(* The inputs of split.                                                    *)
(***************************************************************************)
\* a heading of level 1, 2 or 3 and a line of text under it
H1Block == <<"#", " ", "a", NL, "a", "a", "a", "a", "a", "a", "a", NL>>

H2Block == <<"#", "#", " ", "b", NL, "a", "a", "a", "a", NL>>

H3Block == <<"#", "#", "#", " ", "c", NL, "a", "a", "a", NL>>

\* text without a line break
ParaBlock == <<"a", "a", "a", "a", "a", "a", "a", "a", "a", "a", "a", "a">>

\* an image and two links on one line
MarkupBlock ==
  <<"!", "[", "a", "]", "(", "b", ")", "[", "a", "]", "(", "a", ")",
    "[", "b", "]", "(", "b", ")", NL>>

Blocks == {H1Block, H2Block, H3Block, ParaBlock, MarkupBlock}

RECURSIVE Concat(_)
Concat(bs) == IF bs = <<>> THEN <<>> ELSE bs[1] \o Concat(Tail(bs))

Documents == {Concat(bs) : bs \in UNION {[1..n -> Blocks] : n \in 0..MaxBlocks}}

\* the tokens a limit must exceed before any content fits a chunk
Floor == count_tokens(<<>>) + Overhead

Limits == {0, 1, Floor + SmallBudget, Floor + LargeBudget, Floor + WideBudget}

----------------------------------------------------------------------------
(***************************************************************************)
(* State.  text and limit are the arguments of the call of split in        *)
(* progress; position, chunks and current_headers are its locals, end_ and *)
(* tokens those of the call of get_chunk in progress (start is position).  *)
(* spans, origins and stalls are history variables: for each chunk its     *)
(* start, the end the shrink loop left (cut), the end get_chunk returned,  *)
(* the text get_chunk returned and where in the document each heading of   *)
(* its headers stands; where each entry of current_headers stands; and how *)
(* many chunks consumed nothing.  log is the history of the calls of split *)
(* on this splitter that have returned: the arguments and the chunks of    *)
(* each.                                                                   *)
(***************************************************************************)
VARIABLES text, limit, pc, position, chunks, current_headers, end_, tokens,
          result, spans, origins, stalls, log, report,
          points, vectors, index, successes, errors, point_structs, collection

vars == <<text, limit, pc, position, chunks, current_headers, end_, tokens,
          result, spans, origins, stalls, log, report,
          points, vectors, index, successes, errors, point_structs, collection>>

\* the state of upsert_points_batch (qdrant/qdrant_service.rs), which the
\* splitter never touches
batch_vars ==
  <<points, vectors, index, successes, errors, point_structs, collection>>

\* no batch is being upserted
NoBatch ==
  /\ points = <<>>
  /\ vectors = <<>>
  /\ index = 0
  /\ successes = 0
  /\ errors = <<>>
  /\ point_structs = <<>>
  /\ collection = {}

Init ==
  /\ text \in Documents
  /\ limit \in Limits
  /\ pc = "loop"
  /\ position = 0
  /\ chunks = <<>>
  /\ current_headers = NoHeaders
  /\ end_ = 0
  /\ tokens = 0
  /\ result = "running"
  /\ spans = <<>>
  /\ origins = NoHeaders
  /\ stalls = 0
  /\ log = <<>>
  /\ report = <<>>
  /\ NoBatch

\* get_chunk up to its loop: the first guess and its token count (lines 106-112)
GetChunk ==
  /\ pc = "loop"
  /\ loop_cond(position, text)
  /\ stalls < MaxStall
  /\ end_' = EstimateEnd(text, position, limit)
  /\ IF is_char_boundary(text, end_')
       THEN /\ tokens' = count_tokens(Slice(text, position, end_'))
            /\ pc' = "shrink"
            /\ result' = result
       ELSE /\ tokens' = tokens
            /\ pc' = "panicked"
            /\ result' = "panic"
  /\ UNCHANGED <<text, limit, position, chunks, current_headers, spans,
                 origins, stalls, log>>
  /\ UNCHANGED <<report, batch_vars>>

\* one iteration of get_chunk's loop (lines 114-122)
Shrink ==
  /\ pc = "shrink"
  /\ ShrinkCond(tokens, position, end_, limit)
  /\ end_' = find_new_chunk_end(position, end_)
  /\ IF is_char_boundary(text, end_')
       THEN /\ tokens' = count_tokens(Slice(text, position, end_'))
            /\ pc' = pc
            /\ result' = result
       ELSE /\ tokens' = tokens
            /\ pc' = "panicked"
            /\ result' = "panic"
  /\ UNCHANGED <<text, limit, position, chunks, current_headers, spans,
                 origins, stalls, log>>
  /\ UNCHANGED <<report, batch_vars>>

\* the headers of a chunk with the offset in the text of each in place of its
\* content
chunk_origins(chunk_text, start) ==
  LET found == InsertAll(NoHeaders, HeaderMatches(chunk_text, 1), "at")
  IN  [l \in DOMAIN found |-> [i \in 1..Len(found[l]) |-> start + found[l][i]]]

\* the count of the text of the chunk as emitted, after the rewriting
tokens_of_content(chunk_text, content) == count_tokens(content)

\* let tokens = self.count_tokens(&chunk_text) (line 78): the count of the
\* text get_chunk returned, taken before extract_urls_and_images (line 84)
chunk_tokens(chunk_text, content) == count_tokens(chunk_text)

\* chunks.push without the clone of the headers: every chunk holds the
\* running context itself, not a copy of it
push_shared(list, doc) ==
  Append([k \in 1..Len(list) |->
            [list[k] EXCEPT !.metadata.headers = doc.metadata.headers]],
         doc)

\* chunks.push(Doc { .. }) with headers: current_headers.clone() (lines 85-93)
push(list, doc) == Append(list, doc)

\* the rest of get_chunk (lines 124-127) and of the iteration of split that
\* called it (lines 78-97)
Emit ==
  /\ pc = "shrink"
  /\ ~ShrinkCond(tokens, position, end_, limit)
  /\ LET got        == get_chunk_result(text, position, end_, limit)
         chunk_end  == got.chunk_end
         chunk_text == got.chunk_text
         headers    == update_current_headers(current_headers,
                                              extract_headers(chunk_text))
         parts      == extract_urls_and_images(chunk_text)
     IN  /\ current_headers' = headers
         /\ chunks' = push(chunks,
                        [text |-> parts.content,
                         metadata |-> [tokens |-> chunk_tokens(chunk_text,
                                                               parts.content),
                                       headers |-> headers,
                                       urls |-> parts.urls,
                                       images |-> parts.images]])
         /\ position' = chunk_end
         /\ origins' = update_current_headers(origins,
                                              chunk_origins(chunk_text, position))
         /\ spans' = Append(spans, [start |-> position, cut |-> end_,
                                    end |-> chunk_end, src |-> chunk_text,
                                    origins |-> origins'])
         /\ stalls' = IF chunk_end = position THEN stalls + 1 ELSE stalls
  /\ pc' = "loop"
  /\ end_' = 0
  /\ tokens' = 0
  /\ UNCHANGED <<text, limit, result, log>>
  /\ UNCHANGED <<report, batch_vars>>

\* the loop of split ends and split returns Ok(chunks) (lines 75, 100-101)
Return ==
  /\ pc = "loop"
  /\ ~loop_cond(position, text)
  /\ pc' = "done"
  /\ result' = "Ok"
  /\ log' = Append(log, [text |-> text, limit |-> limit, chunks |-> chunks])
  /\ UNCHANGED <<text, limit, position, chunks, current_headers, end_, tokens,
                 spans, origins, stalls>>
  /\ UNCHANGED <<report, batch_vars>>

Next == GetChunk \/ Shrink \/ Emit \/ Return

Spec == Init /\ [][Next]_vars

----------------------------------------------------------------------------
(***************************************************************************)
(* Calls of split one after another on one splitter.  split takes &self    *)
(* and the splitter holds the tokenizer and the name of the model, which   *)
(* no call writes; what a call starts from is its arguments and the locals *)
(* of lines 70-73.                                                         *)
(***************************************************************************)
\* a splitter serves at most MaxCalls calls
MaxCalls == 3

\* the texts and the limits of these calls
CallDocuments == {H3Block \o H2Block, H1Block \o MarkupBlock, H2Block \o ParaBlock}

CallLimits == {Floor + LargeBudget, Floor + WideBudget}

\* the locals of split as a call leaves them behind, not made anew
locals_left_behind ==
  [chunks |-> chunks, position |-> 0, current_headers |-> current_headers]

\* the locals of split at its entry (lines 70-73)
split_locals ==
  [chunks |-> <<>>, position |-> 0, current_headers |-> NoHeaders]

CallInit ==
  /\ Init
  /\ text \in CallDocuments
  /\ limit \in CallLimits

\* the next call of split, after the call before it has returned
Call ==
  /\ pc = "done"
  /\ Len(log) < MaxCalls
  /\ text' \in CallDocuments
  /\ limit' \in CallLimits
  /\ chunks' = split_locals.chunks
  /\ position' = split_locals.position
  /\ current_headers' = split_locals.current_headers
  /\ pc' = "loop"
  /\ result' = "running"
  /\ end_' = 0
  /\ tokens' = 0
  /\ spans' = <<>>
  /\ origins' = NoHeaders
  /\ stalls' = 0
  /\ UNCHANGED log
  /\ UNCHANGED <<report, batch_vars>>

CallNext == Next \/ Call

CallSpec == CallInit /\ [][CallNext]_vars

----------------------------------------------------------------------------
(***************************************************************************)
(* Texts with characters of more than one byte.  Offsets are offsets of    *)
(* bytes; e-acute is the two bytes C3 A9.                                  *)
(***************************************************************************)
\* five e-acute and a line break
AccentBlock ==
  <<"C3", "A9", "C3", "A9", "C3", "A9", "C3", "A9", "C3", "A9", NL>>

Utf8Blocks == {AccentBlock, ParaBlock, H1Block}

Utf8Documents ==
  {Concat(bs) : bs \in UNION {[1..n -> Utf8Blocks] : n \in 0..MaxBlocks}}

\* the first call of split on a splitter, at its entry (lines 68-73)
Entry ==
  /\ pc = "loop"
  /\ position = 0
  /\ chunks = <<>>
  /\ current_headers = NoHeaders
  /\ end_ = 0
  /\ tokens = 0
  /\ result = "running"
  /\ spans = <<>>
  /\ origins = NoHeaders
  /\ stalls = 0
  /\ log = <<>>
  /\ report = <<>>
  /\ NoBatch

Utf8Init ==
  /\ text \in Utf8Documents
  /\ limit \in Limits
  /\ Entry

Utf8Spec == Utf8Init /\ [][Next]_vars

----------------------------------------------------------------------------
(***************************************************************************)
(* Documents of four blocks with headings of several levels, long enough   *)
(* for a chunk with headings to follow a chunk with headings.              *)
(***************************************************************************)
HeadingDocuments ==
  {Concat(<<H1Block, H2Block, H2Block, H1Block>>),
   Concat(<<H2Block, MarkupBlock, H2Block, H1Block>>),
   Concat(<<H2Block, H3Block, H3Block, H1Block>>),
   Concat(<<H1Block, H2Block, H3Block, H3Block>>),
   Concat(<<H3Block, H3Block, ParaBlock, H3Block>>)}

HeadingInit ==
  /\ text \in HeadingDocuments
  /\ limit \in Limits
  /\ Entry

HeadingSpec == HeadingInit /\ [][Next]_vars

----------------------------------------------------------------------------
(***************************************************************************)
(* adjust_chunk_end on its own: a call of it with any start <= end <= len  *)
(* and limits near the cost of the envelope, under which both line breaks  *)
(* around the end are candidates that the guards accept or refuse.         *)
(***************************************************************************)
\* the limits of these calls exceed the cost of the envelope by 1 to
\* MaxSnapTokens tokens
MaxSnapTokens == 12

SnapDocuments == {H2Block \o H3Block, H1Block \o ParaBlock}

SnapLimits == (count_tokens(<<>>) + 1)..(count_tokens(<<>>) + MaxSnapTokens)

SnapInit ==
  /\ text \in SnapDocuments
  /\ limit \in SnapLimits
  /\ position \in 0..Len(text)
  /\ end_ \in position..Len(text)
  /\ tokens = count_tokens(Slice(text, position, end_))
  /\ pc = "snap"
  /\ chunks = <<>>
  /\ current_headers = NoHeaders
  /\ result = "running"
  /\ spans = <<>>
  /\ origins = NoHeaders
  /\ stalls = 0
  /\ log = <<>>
  /\ report = <<>>
  /\ NoBatch

\* the call adjust_chunk_end(text, position, end_, _, limit) (lines 130-167),
\* its result kept as the end of a span
Snap ==
  /\ pc = "snap"
  /\ LET snapped == adjust_chunk_end(text, position, end_, limit)
     IN  spans' = <<[start |-> position, cut |-> end_, end |-> snapped,
                     src |-> Slice(text, position, snapped),
                     origins |-> NoHeaders]>>
  /\ pc' = "snapped"
  /\ UNCHANGED <<text, limit, position, chunks, current_headers, end_, tokens,
                 result, origins, stalls, log>>
  /\ UNCHANGED <<report, batch_vars>>

SnapSpec == SnapInit /\ [][Snap]_vars

----------------------------------------------------------------------------
(***************************************************************************)
(* Properties.                                                             *)
(***************************************************************************)
\* the chunks emitted so far, by index
Emitted == 1..Len(spans)

\* the chunks that consumed at least one byte
Consuming == {i \in Emitted : spans[i].end > spans[i].start}

\* the concatenation of the texts the chunks 1..n were cut from
RECURSIVE Consumed(_)
Consumed(n) == IF n = 0 THEN <<>> ELSE Consumed(n - 1) \o spans[n].src

\* the loop of get_chunk is about to repeat itself: its condition holds and
\* the end find_new_chunk_end gives is the end it was given, so the next
\* iteration starts from the very state this one started from
ShrinkRepeats ==
  /\ pc = "shrink"
  /\ ShrinkCond(tokens, position, end_, limit)
  /\ find_new_chunk_end(position, end_) = end_

\* the loop of split is about to repeat itself: text is left to split and the
\* last chunk was cut at the position the loop is at again, and get_chunk
\* reads nothing but the text, the position and the limit
SplitRepeats ==
  /\ pc = "loop"
  /\ loop_cond(position, text)
  /\ \E i \in 1..Len(spans) : spans[i].start = position /\ spans[i].end = position

\* C1: for every non-empty text and every limit >= 1 the call of split
\* terminates: neither the shrink loop of get_chunk nor the chunk loop of
\* split comes back to a state it has been in, which for these two loops, that
\* read no input and draw no random number, is what running forever means.
C1_SplitTerminates ==
  (text # <<>> /\ limit >= 1) => ~ShrinkRepeats /\ ~SplitRepeats

\* C2: under every limit >= 1 every iteration of split's loop advances
\* position by at least one: the end get_chunk returns for a chunk is at least
\* one past the chunk's start.
C2_PositionAdvances ==
  limit >= 1 => \A i \in Emitted : spans[i].end >= spans[i].start + 1

\* C3: when split has returned, the spans of the chunks partition the text in
\* output order: the first starts at 0, each starts where the one before it
\* ended, the last ends at the length of the text, none is empty, each chunk
\* was cut from exactly its span, and the pieces concatenate to the text.
C3_Coverage ==
  pc = "done" =>
    /\ Len(spans) = Len(chunks)
    /\ \A i \in Emitted :
         /\ spans[i].start = (IF i = 1 THEN 0 ELSE spans[i - 1].end)
         /\ spans[i].start < spans[i].end
         /\ spans[i].src = Slice(text, spans[i].start, spans[i].end)
    /\ (IF spans = <<>> THEN 0 ELSE spans[Len(spans)].end) = Len(text)
    /\ Consumed(Len(spans)) = text

\* the chunks whose end adjust_chunk_end moved
Snapped == {i \in Emitted : spans[i].end # spans[i].cut}

\* split has returned two or more chunks, one of them with a snapped end
C3_Witness == pc = "done" /\ Len(chunks) >= 2 /\ Snapped # {}

\* C4: every chunk that consumed something stays within the budget, overhead
\* included, unless it is a single minimal unit of one byte; chunks whose end
\* was moved to a line break are no exception.
C4_BudgetRespect ==
  \A i \in Consuming :
    \/ count_tokens(spans[i].src) + Overhead <= limit
    \/ spans[i].end = spans[i].start + 1

----------------------------------------------------------------------------
(***************************************************************************)
(* Placeholders, read back.                                                *)
(***************************************************************************)
Digits == <<"0", "1", "2", "3", "4", "5", "6", "7", "8", "9">>

IsDigit(c) == \E d \in 1..10 : Digits[d] = c

RECURSIVE DigitRun(_, _)
DigitRun(s, i) ==
  IF i > Len(s) \/ ~IsDigit(s[i]) THEN 0 ELSE 1 + DigitRun(s, i + 1)

\* the number a sequence of decimal digits denotes
RECURSIVE FromDigits(_)
FromDigits(ds) ==
  IF ds = <<>> THEN 0
  ELSE 10 * FromDigits(SubSeq(ds, 1, Len(ds) - 1))
         + (CHOOSE d \in 1..10 : Digits[d] = ds[Len(ds)]) - 1

\* the placeholder {$img<index>} or {$url<index>} that starts at position i
PlaceholderAt(s, i) ==
  LET n == DigitRun(s, i + 5)
  IN  IF /\ i + 5 + n <= Len(s)
         /\ s[i] = "{"
         /\ s[i + 1] = "$"
         /\ SubSeq(s, i + 2, i + 4) \in {<<"i", "m", "g">>, <<"u", "r", "l">>}
         /\ n >= 1
         /\ s[i + 5 + n] = "}"
        THEN [ok |-> TRUE,
              img |-> s[i + 2] = "i",
              index |-> FromDigits(SubSeq(s, i + 5, i + 4 + n)),
              next |-> i + 6 + n]
        ELSE [ok |-> FALSE]

\* the positions of text s at which a placeholder starts
PlaceholdersIn(s) == {p \in 1..Len(s) : PlaceholderAt(s, p).ok}

\* text s from position i on with every placeholder replaced by the entry of
\* urls or images it names (kept as it is when it names none)
RECURSIVE Restore(_, _, _, _)
Restore(s, i, urls, images) ==
  LET starts == {p \in PlaceholdersIn(s) : p >= i}
  IN  IF starts = {} THEN SubSeq(s, i, Len(s))
      ELSE LET at   == First(starts)
               m    == PlaceholderAt(s, at)
               list == IF m.img THEN images ELSE urls
           IN  SubSeq(s, i, at - 1)
                 \o (IF m.index < Len(list) THEN list[m.index + 1]
                     ELSE SubSeq(s, at, m.next - 1))
                 \o Restore(s, m.next, urls, images)

\* C5: every placeholder in the text of a chunk names an entry of the urls or
\* images of that chunk, and putting the entries back for the placeholders
\* gives the text the chunk was cut from.
C5_PlaceholderRoundTrip ==
  \A i \in Emitted :
    LET doc == chunks[i]
    IN  /\ \A p \in PlaceholdersIn(doc.text) :
             LET m == PlaceholderAt(doc.text, p)
             IN  m.index < Len(IF m.img THEN doc.metadata.images
                               ELSE doc.metadata.urls)
        /\ Restore(doc.text, 1, doc.metadata.urls, doc.metadata.images)
             = spans[i].src

\* the targets of the links (bang false) or images (bang true) of Markdown
\* text s from position i on, in order; a link marker that is the tail of an
\* image marker is no link
RECURSIVE MarkdownTargets(_, _, _)
MarkdownTargets(s, i, bang) ==
  LET starts == {p \in i..Len(s) :
                   MarkerAt(s, p, TRUE).ok \/ MarkerAt(s, p, FALSE).ok}
  IN  IF starts = {} THEN <<>>
      ELSE LET at    == First(starts)
               image == MarkerAt(s, at, TRUE).ok
               m     == MarkerAt(s, at, image)
           IN  (IF image = bang THEN <<m.target>> ELSE <<>>)
                 \o MarkdownTargets(s, m.next, bang)

\* C6: the urls of a chunk are the targets of the links of the text it was
\* cut from, in order; an image adds its target to images only, and its img
\* placeholder is still in the text of the chunk.
C6_UrlsAreLinkTargets ==
  \A i \in Emitted :
    LET doc == chunks[i]
    IN  /\ doc.metadata.urls = MarkdownTargets(spans[i].src, 1, FALSE)
        /\ doc.metadata.images = MarkdownTargets(spans[i].src, 1, TRUE)
        /\ Cardinality({p \in PlaceholdersIn(doc.text) :
                          PlaceholderAt(doc.text, p).img})
             = Len(doc.metadata.images)

----------------------------------------------------------------------------
(***************************************************************************)
(* Headings.                                                               *)
(***************************************************************************)
\* the levels of the heading lines of text s: a line that starts with that
\* many "#" and white space after them
HeadingLevels(s) ==
  {h \in Levels :
     \E p \in 1..Len(s) :
       /\ p = 1 \/ s[p - 1] = NL
       /\ p + h <= Len(s)
       /\ \A q \in p..(p + h - 1) : s[q] = "#"
       /\ IsSpace(s[p + h])}

\* the headers of chunk i and the offsets recorded beside them
HeadersOf(i) == chunks[i].metadata.headers

OriginsOf(i) == spans[i].origins

\* C7: when a chunk contains a heading of level L, its headers hold, at every
\* level deeper than L, no heading that stands in an earlier chunk.
C7_DeeperContextCleared ==
  \A i \in Emitted :
    /\ DOMAIN HeadersOf(i) = DOMAIN OriginsOf(i)
    /\ \A l \in DOMAIN HeadersOf(i) : Len(HeadersOf(i)[l]) = Len(OriginsOf(i)[l])
    /\ \A l \in HeadingLevels(spans[i].src) :
         \A d \in DOMAIN OriginsOf(i) :
           d > l => \A k \in 1..Len(OriginsOf(i)[d]) :
                      OriginsOf(i)[d][k] >= spans[i].start

\* a chunk that starts at the start of a line and has a heading follows a
\* chunk whose headers held a deeper level, and the deeper level is gone from
\* its headers
C7_Witness ==
  \E i \in Emitted \ {1} :
    /\ spans[i].start > 0
    /\ text[spans[i].start] = NL
    /\ \E l \in HeadingLevels(spans[i].src) :
         \E d \in DOMAIN HeadersOf(i - 1) : d > l /\ d \notin DOMAIN HeadersOf(i)

\* C8: in the headers of every chunk, every heading of a level deeper than L
\* stands in the document after the latest heading of level L of the same
\* headers, also when both are in the same chunk.
C8_MonotonicAncestry ==
  \A i \in Emitted :
    \A l \in DOMAIN OriginsOf(i) :
      \A d \in DOMAIN OriginsOf(i) :
        d > l => \A k \in 1..Len(OriginsOf(i)[d]) :
                   OriginsOf(i)[d][k] > OriginsOf(i)[l][Len(OriginsOf(i)[l])]

\* C9: a chunk that contains no heading has the headers of the chunk before
\* it, the empty map if it is the first, and the running context is the
\* headers of the last chunk.
C9_HeadersCarriedOver ==
  /\ \A i \in Emitted :
       HeadingLevels(spans[i].src) = {} =>
         HeadersOf(i) = (IF i = 1 THEN NoHeaders ELSE HeadersOf(i - 1))
  /\ current_headers = (IF chunks = <<>> THEN NoHeaders ELSE HeadersOf(Len(chunks)))

\* a chunk of text without heading follows a chunk that has headers
C9_Witness ==
  \E i \in Consuming \ {1} :
    /\ HeadingLevels(spans[i].src) = {}
    /\ HeadersOf(i - 1) # NoHeaders
    /\ HeadersOf(i) = HeadersOf(i - 1)

\* C10: on the empty text split returns Ok and no chunk under every limit,
\* and never enters get_chunk.
C10_EmptyText ==
  text = <<>> =>
    /\ pc \in {"loop", "done"}
    /\ chunks = <<>>
    /\ position = 0
    /\ (pc = "done") = (result = "Ok")

\* split has returned on the empty text with limit 0
C10_Witness ==
  text = <<>> /\ limit = 0 /\ pc = "done" /\ result = "Ok" /\ chunks = <<>>

----------------------------------------------------------------------------
(***************************************************************************)
(* Offsets.                                                                *)
(***************************************************************************)
\* offset e lies between offset start and the end of the text
InText(start, e) == start <= e /\ e <= Len(text)

\* the chunks whose end the loop of get_chunk moved back from the estimate
Shrunk == {i \in Emitted : spans[i].cut # EstimateEnd(text, spans[i].start, limit)}

\* C11: position stays within 0..len(text), and every end get_chunk computes
\* for a chunk that starts at start (the estimate and each end of the shrink
\* loop while get_chunk runs, the end the loop left and the end after the snap
\* of every chunk emitted) is within start..len(text).
C11_PositionBounds ==
  /\ InText(0, position)
  /\ pc = "shrink" =>
       /\ InText(position, end_)
       /\ InText(position, EstimateEnd(text, position, limit))
       /\ InText(position, adjust_chunk_end(text, position, end_, limit))
  /\ \A i \in Emitted :
       /\ InText(0, spans[i].start)
       /\ InText(spans[i].start, spans[i].cut)
       /\ InText(spans[i].start, spans[i].end)

\* split has returned a chunk the loop shrank and a chunk whose end was
\* snapped
C11_Witness == pc = "done" /\ Shrunk # {} /\ Snapped # {}

----------------------------------------------------------------------------
(***************************************************************************)
(* Documents that fit.                                                     *)
(***************************************************************************)
\* the whole text is well under the limit: it fits with the overhead, and its
\* count is below 0.8 * limit
WellUnder ==
  /\ count_tokens(text) + Overhead <= limit
  /\ 5 * count_tokens(text) < 4 * limit

\* one H1 heading followed by two H2 headings, a paragraph under each
OutlineDoc == H1Block \o H2Block \o H2Block

\* split has emitted no chunk yet, or one chunk that is the whole text with,
\* for OutlineDoc, the H1 under h1 and the two H2 in their order under h2; and
\* split returns with that one chunk
OneChunk ==
  /\ ~(pc = "shrink" /\ ShrinkCond(tokens, position, end_, limit))
  /\ Len(chunks) <= 1
  /\ pc = "done" => Len(chunks) = 1
  /\ chunks # <<>> =>
       /\ spans[1].start = 0
       /\ spans[1].end = Len(text)
       /\ spans[1].src = text
       /\ text = OutlineDoc =>
            /\ HeadersOf(1) = (1 :> << <<"a">> >> @@ 2 :> << <<"b">>, <<"b">> >>)
            /\ OriginsOf(1) = (1 :> <<0>> @@ 2 :> <<Len(H1Block), Len(H1Block \o H2Block)>>)

\* C12 as stated: when the whole text is well under the limit, split returns
\* exactly one chunk, whose span is the whole text and whose headers, for one
\* H1 followed by two H2, are the H1 under h1 and the two H2 in order under h2.
C12_WholeDocument == WellUnder => OneChunk

\* C12 for texts that are not empty
C12_WholeDocumentNonEmpty == (text # <<>> /\ WellUnder) => OneChunk

\* split has returned on OutlineDoc, which is well under the limit
C12_Witness == pc = "done" /\ text = OutlineDoc /\ WellUnder

----------------------------------------------------------------------------
(***************************************************************************)
(* One call and the next.                                                  *)
(***************************************************************************)
\* the calls that have returned, by index
Returned == 1..Len(log)

SameArguments(i, j) == log[i].text = log[j].text /\ log[i].limit = log[j].limit

\* C13: two calls of split with the same text and the same limit on one
\* splitter return the same chunks (texts, tokens, headers, urls, images),
\* whatever calls come between them, and every call starts from no headers.
C13_Deterministic ==
  /\ \A i \in Returned : \A j \in Returned :
       SameArguments(i, j) => log[i].chunks = log[j].chunks
  /\ (pc = "loop" /\ position = 0 /\ chunks = <<>>) => current_headers = NoHeaders

\* three calls have returned, the first and the third with the same
\* arguments, the second with another text, and the second left headers
\* behind that the third does not have
C13_Witness ==
  /\ Len(log) = 3
  /\ SameArguments(1, 3)
  /\ log[2].text # log[1].text
  /\ log[2].chunks[Len(log[2].chunks)].metadata.headers
       # log[3].chunks[Len(log[3].chunks)].metadata.headers

----------------------------------------------------------------------------
(***************************************************************************)
(* Failure.                                                                *)
(***************************************************************************)
\* split has returned Ok with chunks that cover the whole text
ReturnedAll ==
  /\ pc = "done"
  /\ position = Len(text)
  /\ Len(chunks) = Len(spans)
  /\ Consumed(Len(spans)) = text

\* C14: split fails only when a call of the tokenizer fails, and then with an
\* error and no chunk; count_tokens has no failure to report, so split does
\* not fail: its result is Ok or still to come, and Ok comes with the chunks
\* of the whole text, never with a part of them.
C14_AllOrNothing ==
  /\ result \in {"running", "Ok"}
  /\ result = "Ok" <=> ReturnedAll

----------------------------------------------------------------------------
(***************************************************************************)
(* The steps of the shrink loop and of the snap.                           *)
(***************************************************************************)
\* C15: whenever the loop of get_chunk is about to call find_new_chunk_end,
\* with start < end, the end it gets is at least start + 1, and is less than
\* the end it gave whenever that is more than start + 1.
C15_ShrinkProgress ==
  (pc = "shrink" /\ ShrinkCond(tokens, position, end_, limit)) =>
    LET new_end == find_new_chunk_end(position, end_)
    IN  /\ position + 1 <= new_end
        /\ end_ > position + 1 => new_end < end_

\* the chunk text[start..e] counts at most limit tokens and at least
\* floor(0.8 * limit)
WithinGuards(start, e) ==
  LET tok == count_tokens(Slice(text, start, e))
  IN  tok <= limit /\ tok >= (4 * limit) \div 5

\* C16: adjust_chunk_end returns a position other than the end it was given
\* only if the chunk up to that position counts at most limit tokens and at
\* least floor(0.8 * limit): for the end get_chunk holds, and for the end of
\* every chunk emitted.
C16_SnapGuarded ==
  /\ pc = "shrink" =>
       LET snapped == adjust_chunk_end(text, position, end_, limit)
       IN  snapped # end_ => WithinGuards(position, snapped)
  /\ \A i \in Snapped : WithinGuards(spans[i].start, spans[i].end)

\* a chunk was emitted whose end the snap moved forward, and one whose end the
\* snap left alone although a line break follows it
C16_Witness ==
  /\ \E i \in Snapped : spans[i].end > spans[i].cut
  /\ \E i \in Emitted \ Snapped :
       /\ next_newline(text, spans[i].cut) # 0
       /\ ~WithinGuards(spans[i].start, next_newline(text, spans[i].cut))

\* the position just after the first line break at or after offset e, and
\* just after the last line break before offset e; 0 when there is none
AfterNextBreak(e) ==
  IF \E p \in (e + 1)..Len(text) : text[p] = NL
    THEN CHOOSE p \in (e + 1)..Len(text) :
           text[p] = NL /\ \A q \in (e + 1)..(p - 1) : text[q] # NL
    ELSE 0

AfterPrevBreak(e) ==
  IF \E p \in 1..e : text[p] = NL
    THEN CHOOSE p \in 1..e : text[p] = NL /\ \A q \in (p + 1)..e : text[q] # NL
    ELSE 0

ForwardAccepted(start, e) ==
  AfterNextBreak(e) # 0 /\ WithinGuards(start, AfterNextBreak(e))

BackwardAccepted(start, e) ==
  /\ AfterPrevBreak(e) # 0
  /\ AfterPrevBreak(e) > start
  /\ WithinGuards(start, AfterPrevBreak(e))

\* C17: adjust_chunk_end returns the position just after the next line break
\* whenever that candidate passes both guards; the position just after the
\* line break before the end when the forward candidate is missing or
\* refused and that position is greater than start and passes both guards;
\* and the end it was given in every other case.
C17_SnapPriority ==
  \A i \in Emitted :
    LET start == spans[i].start
        e     == spans[i].cut
    IN  /\ ForwardAccepted(start, e) => spans[i].end = AfterNextBreak(e)
        /\ (~ForwardAccepted(start, e) /\ BackwardAccepted(start, e)) =>
             spans[i].end = AfterPrevBreak(e)
        /\ (~ForwardAccepted(start, e) /\ ~BackwardAccepted(start, e)) =>
             spans[i].end = e
        /\ spans[i].end \in {AfterNextBreak(e), AfterPrevBreak(e), e}

\* a call returned the position after the line break before the end, moving
\* the end back, with a line break ahead that the guards refused
C17_Witness ==
  \E i \in Emitted :
    /\ spans[i].end < spans[i].cut
    /\ spans[i].end = AfterPrevBreak(spans[i].cut)
    /\ AfterNextBreak(spans[i].cut) # 0
    /\ ~ForwardAccepted(spans[i].start, spans[i].cut)

----------------------------------------------------------------------------
(***************************************************************************)
(* Numbering of placeholders.                                              *)
(***************************************************************************)
\* how many placeholders of the kind of the one at position p stand before it
\* in text s
EarlierOfKind(s, p) ==
  Cardinality({q \in PlaceholdersIn(s) :
                 q < p /\ PlaceholderAt(s, q).img = PlaceholderAt(s, p).img})

\* C18: in the text of every chunk the k-th img placeholder, counted from 0,
\* has index k, and the k-th url placeholder has index k, so no two of a kind
\* share an index; images and urls hold, in order, the targets of the images
\* and of the links of the text the chunk was cut from.
C18_PlaceholderNumbering ==
  \A i \in Emitted :
    LET doc == chunks[i]
    IN  /\ \A p \in PlaceholdersIn(doc.text) :
             PlaceholderAt(doc.text, p).index = EarlierOfKind(doc.text, p)
        /\ doc.metadata.images = MarkdownTargets(spans[i].src, 1, TRUE)
        /\ doc.metadata.urls = MarkdownTargets(spans[i].src, 1, FALSE)

----------------------------------------------------------------------------
(***************************************************************************)
(* Headings of one level.                                                  *)
(***************************************************************************)
\* where the headings of chunk i stand in the document, by level, and their
\* texts
OwnOrigins(i) == chunk_origins(spans[i].src, spans[i].start)

OwnHeaders(i) == extract_headers(spans[i].src)

\* the list of level l of the headers (or origins) h, empty when absent
ListOf(h, l) == IF l \in DOMAIN h THEN h[l] ELSE <<>>

\* chunk i has a heading of a level shallower than l before its first heading
\* of level l
ShallowerBetween(i, l) ==
  \E k \in DOMAIN OwnOrigins(i) :
    k < l /\ \E n \in 1..Len(OwnOrigins(i)[k]) :
               OwnOrigins(i)[k][n] < OwnOrigins(i)[l][1]

\* C19: for every level L of which a chunk has headings, the list of level L
\* of its headers ends with all of them in their order of appearance, and
\* before them it holds the list of level L of the chunk before, unless a
\* heading of a shallower level stands between: then it holds them alone.
C19_SameLevelAccumulates ==
  \A i \in Emitted :
    LET before == IF i = 1 THEN NoHeaders ELSE HeadersOf(i - 1)
        placed == IF i = 1 THEN NoHeaders ELSE OriginsOf(i - 1)
    IN  \A l \in DOMAIN OwnOrigins(i) :
          IF ShallowerBetween(i, l)
            THEN /\ ListOf(HeadersOf(i), l) = OwnHeaders(i)[l]
                 /\ ListOf(OriginsOf(i), l) = OwnOrigins(i)[l]
            ELSE /\ ListOf(HeadersOf(i), l) = ListOf(before, l) \o OwnHeaders(i)[l]
                 /\ ListOf(OriginsOf(i), l) = ListOf(placed, l) \o OwnOrigins(i)[l]

----------------------------------------------------------------------------
(***************************************************************************)
(* The headers of a chunk, once emitted.                                   *)
(***************************************************************************)
\* the headers of every chunk are the headers of the chunk before merged
\* with the headings of the chunk itself, and the running context is the
\* headers of the last chunk
PostMerge ==
  /\ \A i \in Emitted :
       HeadersOf(i) =
         update_current_headers(IF i = 1 THEN NoHeaders ELSE HeadersOf(i - 1),
                                OwnHeaders(i))
  /\ chunks # <<>> => current_headers = HeadersOf(Len(chunks))

\* a step of the call leaves every chunk emitted before it as it was
Frozen ==
  /\ Len(chunks') >= Len(chunks)
  /\ \A i \in 1..Len(chunks) : chunks'[i] = chunks[i]

\* C20: the headers of every chunk are the running context as it is after
\* the merge of the headings of that chunk, and no later step of the call
\* changes the headers of a chunk already emitted.
C20_HeadersSnapshot == []PostMerge /\ [][Frozen]_vars

\* a chunk with headers has been followed by a chunk with other headers
C20_Witness ==
  \E i \in Emitted \ {1} :
    /\ HeadersOf(i - 1) # NoHeaders
    /\ HeadersOf(i) # HeadersOf(i - 1)
    /\ HeadingLevels(spans[i].src) # {}

----------------------------------------------------------------------------
(***************************************************************************)
(* The tokens of a chunk.                                                  *)
(***************************************************************************)
TokensOf(i) == chunks[i].metadata.tokens

\* C21: the tokens of every chunk are the count of the span text[start..end]
\* the chunk consumed, in its envelope: the span as it is after the snap, and
\* as it is before links and images are rewritten.
C21_TokensOfSpan ==
  \A i \in Emitted :
    TokensOf(i) = EncodeLen(format_for_tokenization(
                              Slice(text, spans[i].start, spans[i].end)))

\* a chunk whose end the snap moved and whose links were rewritten: neither
\* the span before the snap nor the text as emitted counts what the span does
C21_Witness ==
  \E i \in Snapped :
    /\ chunks[i].text # spans[i].src
    /\ count_tokens(chunks[i].text) # TokensOf(i)
    /\ count_tokens(Slice(text, spans[i].start, spans[i].cut)) # TokensOf(i)

\* C22: every chunk that consumed a non-empty span has tokens <= limit, the
\* count being that of the span in its envelope without the overhead term: no
\* oversized non-empty chunk is emitted.
C22_NoOversizedChunk ==
  \A i \in Consuming : TokensOf(i) <= limit

\* a non-empty chunk the loop of get_chunk shrank, which left no room for
\* another token under the limit once the overhead is counted
C22_Witness ==
  \E i \in Consuming \cap Shrunk :
    /\ spans[i].end = spans[i].cut
    /\ TokensOf(i) + Overhead + 1 > limit

----------------------------------------------------------------------------
(***************************************************************************)
(* split on documents about as large as the limit: FitBlocks lines of      *)
(* markup followed by a last line that may lack its line break, under      *)
(* limits within FitSlack tokens of what the document needs.               *)
(***************************************************************************)
FitBlocks == 8
FitSlack == 12

FitTails == {<<>>, <<"a">>, ParaBlock}

FitDocuments ==
  {Concat([k \in 1..FitBlocks |-> MarkupBlock]) \o tail : tail \in FitTails}

FitLimits ==
  {count_tokens(d) + Overhead + k : d \in FitDocuments,
                                    k \in (0 - FitSlack)..FitSlack}

FitInit == text \in FitDocuments /\ limit \in FitLimits /\ Entry

FitSpec == FitInit /\ [][Next]_vars

\* the text fits the budget as a whole
Fits == count_tokens(text) + Overhead <= limit

\* C23: a non-empty text that fits the budget as a whole, overhead included,
\* comes back from split as exactly one chunk that covers all of it.
C23_FittingDocumentWhole ==
  (pc = "done" /\ Len(text) > 0 /\ Fits)
    => /\ Len(chunks) = 1
       /\ spans[1].start = 0
       /\ spans[1].end = Len(text)

----------------------------------------------------------------------------
(***************************************************************************)
(* The offsets of the slices.                                              *)
(***************************************************************************)
\* C24: every offset at which the text is sliced (position, the estimate and
\* each end of the shrink loop held in end_, the cut and the snapped end of
\* every chunk) is on a character boundary of the text, also when the text
\* has characters of more than one byte: no slice panics.
C24_SlicesOnBoundaries ==
  /\ pc # "panicked"
  /\ is_char_boundary(text, position)
  /\ is_char_boundary(text, end_)
  /\ \A i \in Emitted : /\ is_char_boundary(text, spans[i].start)
                         /\ is_char_boundary(text, spans[i].cut)
                         /\ is_char_boundary(text, spans[i].end)

----------------------------------------------------------------------------
(***************************************************************************)
(* The headings recorded and the heading lines of the document.            *)
(***************************************************************************)
\* the heading lines of the document: the matches of the header regex on the
\* whole text
DocumentHeadings == HeaderMatches(text, 1)

\* C25: every heading recorded in the headers of a chunk is a heading line of
\* the document, whole: at the offset it was found there starts a heading line
\* of the document, of the level it is recorded under and with the same text.
\* No tail of a line cut by a chunk boundary, and no part of a heading line,
\* is recorded as a heading.
C25_HeadingsAreDocumentLines ==
  \A i \in Emitted :
    \A l \in DOMAIN HeadersOf(i) \cap DOMAIN OriginsOf(i) :
      \A k \in DOMAIN HeadersOf(i)[l] \cap DOMAIN OriginsOf(i)[l] :
        \E n \in DOMAIN DocumentHeadings :
          /\ DocumentHeadings[n].at = OriginsOf(i)[l][k]
          /\ DocumentHeadings[n].level = l
          /\ DocumentHeadings[n].content = HeadersOf(i)[l][k]

\* a map of headers has keys among h1..h6 only, and no empty list
WellFormed(h) ==
  /\ DOMAIN h \subseteq Levels
  /\ \A l \in DOMAIN h : Len(h[l]) >= 1

\* C26: the running heading context and the headers of every chunk have keys
\* among h1..h6 only and a non-empty list under every key: a level is absent
\* or has at least one heading.
C26_HeadersWellFormed ==
  /\ WellFormed(current_headers)
  /\ \A i \in Emitted : WellFormed(HeadersOf(i))

\* a chunk whose headers lost a level the chunk before had, and kept another
C26_Witness ==
  \E i \in Emitted :
    /\ i > 1
    /\ DOMAIN HeadersOf(i) # {}
    /\ DOMAIN HeadersOf(i - 1) \ DOMAIN HeadersOf(i) # {}
    /\ current_headers = HeadersOf(Len(chunks))

----------------------------------------------------------------------------
(***************************************************************************)
(* process_file (text_splitter/mod.rs): read the file, split its text,     *)
(* write the chunks as JSON, and compute the report of the chunk sizes.    *)
(* split runs as the actions above; ReadFile comes before it and           *)
(* WriteReport after it.                                                   *)
(***************************************************************************)
ReportBlocks == 2

ReportDocuments ==
  {Concat(bs) : bs \in UNION {[1..n -> Blocks] : n \in 0..ReportBlocks}}

ReportInit ==
  /\ text \in ReportDocuments
  /\ limit \in Limits
  /\ pc = "read"
  /\ position = 0
  /\ chunks = <<>>
  /\ current_headers = NoHeaders
  /\ end_ = 0
  /\ tokens = 0
  /\ result = "running"
  /\ spans = <<>>
  /\ origins = NoHeaders
  /\ stalls = 0
  /\ log = <<>>
  /\ report = <<>>
  /\ NoBatch

\* fs::read_to_string(file_path)? (lines 21-22): the text of the file, or the
\* error process_file returns
ReadFile ==
  /\ pc = "read"
  /\ \E readable \in BOOLEAN :
       IF readable THEN pc' = "loop" /\ result' = result
                   ELSE pc' = "failed" /\ result' = "Err"
  /\ UNCHANGED <<text, limit, position, chunks, current_headers, end_, tokens,
                 spans, origins, stalls, log, report, batch_vars>>

\* docs.iter().map(|doc| doc.metadata.tokens).collect() (line 34)
chunk_sizes(docs) == [i \in 1..Len(docs) |-> docs[i].metadata.tokens]

\* chunk_sizes.iter().sum::<usize>()
RECURSIVE sum(_)
sum(sizes) == IF sizes = <<>> THEN 0 ELSE sizes[1] + sum(Tail(sizes))

\* chunk_sizes.iter().min().unwrap_or(&0) and .max().unwrap_or(&0)
min_chunk_size(sizes) ==
  IF sizes = <<>> THEN 0
  ELSE CHOOSE m \in {sizes[i] : i \in 1..Len(sizes)} :
         \A i \in 1..Len(sizes) : m <= sizes[i]

max_chunk_size(sizes) ==
  IF sizes = <<>> THEN 0
  ELSE CHOOSE m \in {sizes[i] : i \in 1..Len(sizes)} :
         \A i \in 1..Len(sizes) : m >= sizes[i]

\* sorted_sizes.sort_unstable(): the sizes in ascending order
RECURSIVE sort_unstable(_)
sort_unstable(sizes) ==
  IF sizes = <<>> THEN <<>>
  ELSE LET m == min_chunk_size(sizes)
           i == CHOOSE k \in 1..Len(sizes) : sizes[k] = m
       IN  <<m>> \o sort_unstable(SubSeq(sizes, 1, i - 1)
                                    \o SubSeq(sizes, i + 1, Len(sizes)))

\* the index of sorted_sizes[sorted_sizes.len() / 2] (line 40) is within the
\* vector; the indexing panics when it is not
median_in_bounds(sizes) == Len(sizes) \div 2 < Len(sizes)

\* the Report of lines 42-53; avg_chunk_size is the quotient of two f64, kept
\* as its numerator and denominator (0.0 / 0.0 is NaN)
Report(sizes) ==
  [avg_chunk_size |-> [num |-> sum(sizes), den |-> Len(sizes)],
   median_chunk_size |-> sort_unstable(sizes)[(Len(sizes) \div 2) + 1],
   min_chunk_size |-> min_chunk_size(sizes),
   max_chunk_size |-> max_chunk_size(sizes),
   total_chunks |-> Len(sizes)]

\* process_file after split has returned (lines 26-53): the JSON file is
\* written or the error of the write returned, then the report is computed
WriteReport ==
  /\ pc = "done"
  /\ \E written \in BOOLEAN :
       IF ~written
         THEN pc' = "failed" /\ result' = "Err" /\ report' = report
       ELSE IF ~median_in_bounds(chunk_sizes(chunks))
         THEN pc' = "panicked" /\ result' = "panic" /\ report' = report
       ELSE /\ pc' = "reported"
            /\ result' = "Ok"
            /\ report' = <<Report(chunk_sizes(chunks))>>
  /\ UNCHANGED <<text, limit, position, chunks, current_headers, end_, tokens,
                 spans, origins, stalls, log, batch_vars>>

ReportNext == ReadFile \/ Next \/ WriteReport

ReportSpec == ReportInit /\ [][ReportNext]_vars

\* C27: process_file does not fail on a file that yields no chunk: once the
\* empty list of chunks is written, it returns a Report with total_chunks = 0
\* and with 0 as the min, the max and the median chunk size.
C27_ReportOfNoChunks ==
  (pc \in {"reported", "panicked"} /\ chunks = <<>>)
    => /\ pc = "reported"
       /\ Len(report) = 1
       /\ report[1].total_chunks = 0
       /\ report[1].min_chunk_size = 0
       /\ report[1].max_chunk_size = 0
       /\ report[1].median_chunk_size = 0

----------------------------------------------------------------------------
(***************************************************************************)
(* QdrantService::upsert_points_batch (qdrant/qdrant_service.rs): embed    *)
(* the texts of the points in one call, build a PointStruct for every      *)
(* point whose id parses as a u64, and write them in one upsert call.      *)
(* A point is its id; collection holds the ids Qdrant has stored.          *)
(***************************************************************************)
MaxPoints == 3

PointIds == {<<"7">>, <<"+", "7">>, <<"4", "2">>, <<"x">>, <<>>}

\* point.id.parse::<u64>() succeeds (lines 203-206): an optional "+" and at
\* least one decimal digit
parses_u64(id) ==
  LET ds == IF id # <<>> /\ id[1] = "+" THEN Tail(id) ELSE id
  IN  ds # <<>> /\ \A k \in 1..Len(ds) : IsDigit(ds[k])

parse_u64(id) ==
  FromDigits(IF id[1] = "+" THEN Tail(id) ELSE id)

\* usize::MAX, the index of the error of the batched call (line 225); TLC's
\* largest integer stands for it
usize_MAX == 2147483647

\* the state of the splitter while a batch is upserted
NoSplit ==
  /\ text = <<>>
  /\ limit = 0
  /\ position = 0
  /\ chunks = <<>>
  /\ current_headers = NoHeaders
  /\ end_ = 0
  /\ tokens = 0
  /\ spans = <<>>
  /\ origins = NoHeaders
  /\ stalls = 0
  /\ log = <<>>
  /\ report = <<>>

split_vars ==
  <<text, limit, position, chunks, current_headers, end_, tokens, spans,
    origins, stalls, log, report>>

BatchInit ==
  /\ points \in UNION {[1..n -> PointIds] : n \in 0..MaxPoints}
  /\ pc = "embed"
  /\ result = "running"
  /\ vectors = <<>>
  /\ index = 0
  /\ successes = 0
  /\ errors = <<>>
  /\ point_structs = <<>>
  /\ collection = {}
  /\ NoSplit

\* lines 170-194: an empty input returns at once; otherwise embed_batch is
\* called, whose error or whose wrong number of vectors ends the call with Err
Embed ==
  /\ pc = "embed"
  /\ IF points = <<>>
       THEN pc' = "returned" /\ result' = "Ok" /\ vectors' = vectors
       ELSE \E embedded \in BOOLEAN, n \in 0..MaxPoints :
              IF ~embedded
                THEN pc' = "returned" /\ result' = "Err" /\ vectors' = vectors
              ELSE IF n # Len(points)
                THEN /\ pc' = "returned"
                     /\ result' = "Err"
                     /\ vectors' = [k \in 1..n |-> "vector"]
              ELSE /\ pc' = "collect"
                   /\ result' = result
                   /\ vectors' = [k \in 1..n |-> "vector"]
  /\ UNCHANGED <<points, index, successes, errors, point_structs, collection,
                 split_vars>>

\* one turn of the loop of lines 196-216, on the point of index i = index;
\* json!(point) of a struct is an object, so the payload is always Ok
Collect ==
  /\ pc = "collect"
  /\ IF index < Len(points)
       THEN /\ IF parses_u64(points[index + 1])
                 THEN /\ point_structs' =
                           Append(point_structs, parse_u64(points[index + 1]))
                      /\ successes' = successes + 1
                      /\ errors' = errors
                 ELSE /\ errors' = Append(errors, [index |-> index,
                                                   error |-> "Invalid point ID"])
                      /\ UNCHANGED <<point_structs, successes>>
            /\ index' = index + 1
            /\ pc' = pc
       ELSE /\ pc' = "upsert"
            /\ UNCHANGED <<index, successes, errors, point_structs>>
  /\ UNCHANGED <<points, vectors, result, collection, split_vars>>

\* lines 218-234: the one upsert call when there is a point to write, whose
\* failure is recorded under usize::MAX, and the return of the result
Upsert ==
  /\ pc = "upsert"
  /\ IF point_structs = <<>>
       THEN UNCHANGED <<errors, collection>>
       ELSE \E stored \in BOOLEAN :
              IF stored
                THEN /\ collection' = collection \cup
                           {point_structs[k] : k \in 1..Len(point_structs)}
                     /\ errors' = errors
                ELSE /\ errors' = Append(errors, [index |-> usize_MAX,
                                                   error |-> "Failed to batch upsert"])
                     /\ collection' = collection
  /\ pc' = "returned"
  /\ result' = "Ok"
  /\ UNCHANGED <<points, vectors, index, successes, point_structs, split_vars>>

BatchNext == Embed \/ Collect \/ Upsert

BatchSpec == BatchInit /\ [][BatchNext]_vars

\* the errors of single points among the errors returned
PointErrors == {k \in 1..Len(errors) : errors[k].index # usize_MAX}

\* the points of the input that are in the collection
Written == {k \in 1..Len(points) :
              parses_u64(points[k]) /\ parse_u64(points[k]) \in collection}

\* C28: when upsert_points_batch returns Ok for a non-empty input, successes
\* is the number of points written to the collection, and successes plus the
\* number of errors of single points is the number of points; successes is 0
\* when the batched upsert call failed.
C28_SuccessesAreWritten ==
  (pc = "returned" /\ result = "Ok" /\ points # <<>>)
    => /\ successes = Cardinality(Written)
       /\ successes + Cardinality(PointErrors) = Len(points)
       /\ (\E k \in 1..Len(errors) : errors[k].index = usize_MAX)
            => successes = 0

----------------------------------------------------------------------------
(***************************************************************************)
(* The arithmetic of get_chunk's first lines.                              *)
(***************************************************************************)
\* the text from position to the end, which the estimate divides by the
\* count of
Remaining == Slice(text, position, Len(text))

\* C29: the divisor of the estimate is never zero and the subtraction of the
\* overhead never goes below zero: every count includes the envelope, which
\* is at least one token, so the count of the rest of the text is at least
\* that of the empty text and at least 1 whenever get_chunk is about to run
\* (start < len(text)), and the envelope of the empty text counts no less than
\* the empty text.
C29_EstimateArithmetic ==
  /\ EmptyTokens >= 1
  /\ WrappedEmptyTokens >= EmptyTokens
  /\ Overhead >= 0
  /\ (pc = "loop" /\ loop_cond(position, text))
       => LET divisor == count_tokens(Remaining)
          IN  divisor >= EmptyTokens /\ divisor >= 1

\* get_chunk has taken its estimate on the last byte of the text, the
\* shortest text it can be called with
C29_Witness ==
  /\ pc = "shrink"
  /\ position > 0
  /\ Len(Remaining) = 1
  /\ end_ = EstimateEnd(text, position, limit)

====
